---------------------------- MODULE Spec2Model ----------------------------
(***************************************************************************)
(* Model of the real-estate search pipeline of PetrZakcs/realitky:         *)
(* src/pages/api/search.ts (handler, postProcessListings, deduplicate,     *)
(* transformListing, createId, the text parsers, requestAiScoring,         *)
(* mergeScores), src/lib/supabase.ts (persistSearch, persistResults) and   *)
(* src/unnamed/part_002 (fetchListingsFromApify, scoreRealEstateItems).    *)
(*                                                                         *)
(* Conventions.                                                            *)
(*  - A JavaScript string is a sequence of one-character strings.          *)
(*  - An optional value (undefined / absent field) is None == <<>>, a      *)
(*    present value v is Some(v) == <<v>>.                                 *)
(*  - A raw identifier is a number or a string: [kind, n, s].              *)
(*  - A size is a decimal number [num, den] (den a power of ten), the      *)
(*    value parseFloat yields; prices, rooms and pricePerM2 are integers.  *)
(***************************************************************************)
EXTENDS Integers, Sequences, FiniteSets, TLC

None == <<>>
Some(v) == <<v>>
IsSome(o) == o # None
Val(o) == o[1]

\* a ?? b of JavaScript: a unless a is undefined/null
Coalesce(a, b) == IF IsSome(a) THEN a ELSE b

MinOf(S) == CHOOSE i \in S : \A j \in S : i <= j

(***************************************************************************)
(* Characters and the regular-expression classes the parsers use.          *)
(***************************************************************************)
Digits == <<"0", "1", "2", "3", "4", "5", "6", "7", "8", "9">>

\* \d of a JavaScript regular expression
IsDigit(c) == \E k \in 1..10 : Digits[k] = c

DigitVal(c) == (CHOOSE k \in 1..10 : Digits[k] = c) - 1

\* \s of a JavaScript regular expression, on the characters of the model
IsSpace(c) == c \in {" ", "\t", "\n"}

\* the /i flag, on the letters the patterns name
Lower(c) ==
    CASE c = "M" -> "m"
      [] c = "K" -> "k"
      [] c = "C" -> "c"
      [] c = "Z" -> "z"
      [] OTHER -> c

CharIs(t, i, c) == i >= 1 /\ i <= Len(t) /\ Lower(t[i]) = c

RECURSIVE DigitsEnd(_, _)
\* index just past the maximal run of digits of t that starts at i (\d+, greedy)
DigitsEnd(t, i) ==
    IF i <= Len(t) /\ IsDigit(t[i]) THEN DigitsEnd(t, i + 1) ELSE i

RECURSIVE SpacesEnd(_, _)
\* index just past the maximal run of white space of t that starts at i (\s*)
SpacesEnd(t, i) ==
    IF i <= Len(t) /\ IsSpace(t[i]) THEN SpacesEnd(t, i + 1) ELSE i

RECURSIVE NumVal(_, _, _)
\* Number("d1 d2 ... dk") for the digits t[i..e-1]
NumVal(t, i, e) ==
    IF e <= i THEN 0 ELSE NumVal(t, i, e - 1) * 10 + DigitVal(t[e - 1])

RECURSIVE Pow10(_)
Pow10(k) == IF k = 0 THEN 1 ELSE 10 * Pow10(k - 1)

\* a number with no fractional part
Whole(n) == [num |-> n, den |-> 1]

(***************************************************************************)
(* parseSize: text.match(/(\d+(\.\d+)?)\s?(m2|m²)/i), parseFloat(match[1]) *)
(* Every quantifier is followed by a character outside its class, so the   *)
(* only candidate at a start position is the maximal digit run, with the   *)
(* fraction when one follows, and (backtracking) without it.               *)
(***************************************************************************)
UnitAt(t, e) == CharIs(t, e, "m") /\ e + 1 <= Len(t) /\ t[e + 1] \in {"2", "²"}

SizeTail(t, e) ==
    \/ (e <= Len(t) /\ IsSpace(t[e]) /\ UnitAt(t, e + 1))
    \/ UnitAt(t, e)

SizeMatchAt(t, i) ==
    LET e1 == DigitsEnd(t, i)
        hasFrac == /\ e1 + 1 <= Len(t)
                   /\ t[e1] = "."
                   /\ IsDigit(t[e1 + 1])
        e2 == IF hasFrac THEN DigitsEnd(t, e1 + 1) ELSE e1
    IN  IF e1 = i THEN None
        ELSE IF hasFrac /\ SizeTail(t, e2)
             THEN Some([num |-> NumVal(t, i, e1) * Pow10(e2 - e1 - 1)
                                  + NumVal(t, e1 + 1, e2),
                        den |-> Pow10(e2 - e1 - 1)])
        ELSE IF SizeTail(t, e1) THEN Some(Whole(NumVal(t, i, e1)))
        ELSE None

parseSize(text) ==
    LET S == {i \in 1..Len(text) : IsSome(SizeMatchAt(text, i))}
    IN  IF S = {} THEN None ELSE SizeMatchAt(text, MinOf(S))

(***************************************************************************)
(* parsePrice: text.replace(/\s/g, "").match(/(\d{2,})\s?(Kc|CZK)?/i),     *)
(* Number(match[1]).  The optional tail never changes group 1.             *)
(***************************************************************************)
StripSpaces(text) == SelectSeq(text, LAMBDA c : ~IsSpace(c))

parsePrice(text) ==
    LET s == StripSpaces(text)
        S == {i \in 1..Len(s) : IsDigit(s[i]) /\ i + 1 <= Len(s) /\ IsDigit(s[i + 1])}
    IN  IF S = {} THEN None
        ELSE Some(NumVal(s, MinOf(S), DigitsEnd(s, MinOf(S))))

(***************************************************************************)
(* parseRooms: /(\d+)\s*\+?\s*kk/i, then /(\d+)\s*kk/i                     *)
(***************************************************************************)
KkAt(t, e) == CharIs(t, e, "k") /\ CharIs(t, e + 1, "k")

\* end of a match of \d+\s*\+\s*kk at i (0 when there is none)
PlusKkEnd(t, i) ==
    LET e1 == DigitsEnd(t, i)
        e2 == SpacesEnd(t, e1)
        e4 == SpacesEnd(t, e2 + 1)
    IN  IF e1 > i /\ e2 <= Len(t) /\ t[e2] = "+" /\ KkAt(t, e4) THEN e4 + 2 ELSE 0

\* end of a match of \d+\s*kk at i (0 when there is none)
BareKkEnd(t, i) ==
    LET e1 == DigitsEnd(t, i)
        e2 == SpacesEnd(t, e1)
    IN  IF e1 > i /\ KkAt(t, e2) THEN e2 + 2 ELSE 0

parseRooms(text) ==
    LET S == {i \in 1..Len(text) : PlusKkEnd(text, i) > 0 \/ BareKkEnd(text, i) > 0}
        O == {i \in 1..Len(text) : BareKkEnd(text, i) > 0}
    IN  IF S # {} THEN Some(NumVal(text, MinOf(S), DigitsEnd(text, MinOf(S))))
        ELSE IF O # {} THEN Some(NumVal(text, MinOf(O), DigitsEnd(text, MinOf(O))))
        ELSE None

(***************************************************************************)
(* deriveLayoutLabel: /\d+\s*\+\s*kk|\d+\s*kk/i, match[0] verbatim         *)
(***************************************************************************)
LayoutEnd(t, i) == IF PlusKkEnd(t, i) > 0 THEN PlusKkEnd(t, i) ELSE BareKkEnd(t, i)

deriveLayoutLabel(text) ==
    LET S == {i \in 1..Len(text) : LayoutEnd(text, i) > 0}
    IN  IF S = {} THEN None
        ELSE Some(SubSeq(text, MinOf(S), LayoutEnd(text, MinOf(S)) - 1))

(***************************************************************************)
(* String(n), Buffer.from(s).toString("base64"), and the random sources.   *)
(***************************************************************************)
RECURSIVE ToStr(_)
\* String(n) for a non-negative integer n
ToStr(n) == IF n < 10 THEN <<Digits[n + 1]>> ELSE ToStr(n \div 10) \o <<Digits[(n % 10) + 1]>>

UpperCase == <<"A", "B", "C", "D", "E", "F", "G", "H", "I", "J", "K", "L", "M",
               "N", "O", "P", "Q", "R", "S", "T", "U", "V", "W", "X", "Y", "Z">>

LowerCase == <<"a", "b", "c", "d", "e", "f", "g", "h", "i", "j", "k", "l", "m",
               "n", "o", "p", "q", "r", "s", "t", "u", "v", "w", "x", "y", "z">>

\* the base64 alphabet, index 0..63
B64Alphabet == UpperCase \o LowerCase \o Digits \o <<"+", "/">>

Sym(k) == B64Alphabet[k + 1]

\* the UTF-8 byte of an ASCII character
CharCode(c) ==
    IF IsDigit(c) THEN 48 + DigitVal(c)
    ELSE IF \E k \in 1..26 : UpperCase[k] = c
         THEN 64 + (CHOOSE k \in 1..26 : UpperCase[k] = c)
    ELSE IF \E k \in 1..26 : LowerCase[k] = c
         THEN 96 + (CHOOSE k \in 1..26 : LowerCase[k] = c)
    ELSE CASE c = " " -> 32
           [] c = "#" -> 35
           [] c = "+" -> 43
           [] c = "-" -> 45
           [] c = "." -> 46
           [] c = "/" -> 47
           [] c = ":" -> 58
           [] c = "=" -> 61

Bytes(s) == [i \in 1..Len(s) |-> CharCode(s[i])]

RECURSIVE B64(_)
B64(b) ==
    IF Len(b) = 0 THEN <<>>
    ELSE IF Len(b) = 1
         THEN <<Sym(b[1] \div 4), Sym((b[1] % 4) * 16), "=", "=">>
    ELSE IF Len(b) = 2
         THEN <<Sym(b[1] \div 4), Sym((b[1] % 4) * 16 + (b[2] \div 16)),
                Sym((b[2] % 16) * 4), "=">>
    ELSE <<Sym(b[1] \div 4), Sym((b[1] % 4) * 16 + (b[2] \div 16)),
           Sym((b[2] % 16) * 4 + (b[3] \div 64)), Sym(b[3] % 64)>>
         \o B64(SubSeq(b, 4, Len(b)))

\* Buffer.from(url).toString("base64")
Base64(s) == B64(Bytes(s))

\* a raw identifier: a number or a string
NumId(n) == [kind |-> "num", n |-> n, s |-> <<>>]
StrId(s) == [kind |-> "str", n |-> 0, s |-> s]

\* String(id)
StringOfId(id) == IF id.kind = "num" THEN ToStr(id.n) ELSE id.s

\* truthiness of JavaScript: a number other than 0, a non-empty string
TruthyId(o) == IsSome(o) /\ (IF Val(o).kind = "num" THEN Val(o).n # 0 ELSE Val(o).s # <<>>)
TruthyStr(o) == IsSome(o) /\ Val(o) # <<>>
TruthyNum(o) == IsSome(o) /\ Val(o) # 0
TruthySize(o) == IsSome(o) /\ Val(o).num # 0

\* String(Math.random()) for the k-th distinct draw: "0.<k>"
RandomKey(k) == <<"0", ".">> \o ToStr(k)

\* crypto.randomUUID() for the k-th distinct draw
RandomUUID(k) == <<"u", "u", "i", "d", "-">> \o ToStr(k)

(***************************************************************************)
(* deduplicate: a Map keyed by item.url ?? String(item.id ?? Math.random())*)
(* that keeps the first item of each key, in insertion order.  rnd[i] is   *)
(* the draw Math.random() returns for the i-th listing.                    *)
(***************************************************************************)
\* a deduplicate that consults the id before the URL
DedupKeyIdFirst(item, r) ==
    IF IsSome(item.id) THEN StringOfId(Val(item.id))
    ELSE IF IsSome(item.url) THEN Val(item.url)
    ELSE RandomKey(r)

DedupKey(item, r) ==
    IF IsSome(item.url) THEN Val(item.url)
    ELSE IF IsSome(item.id) THEN StringOfId(Val(item.id))
    ELSE RandomKey(r)

RECURSIVE DedupFrom(_, _, _, _, _)
DedupFrom(listings, rnd, i, keys, out) ==
    IF i > Len(listings) THEN out
    ELSE LET key == DedupKey(listings[i], rnd[i])
         IN  IF key \in keys
             THEN DedupFrom(listings, rnd, i + 1, keys, out)
             ELSE DedupFrom(listings, rnd, i + 1, keys \cup {key}, Append(out, listings[i]))

deduplicate(listings, rnd) == DedupFrom(listings, rnd, 1, {}, <<>>)

(***************************************************************************)
(* createId and transformListing                                           *)
(***************************************************************************)
createId(item, uuid) ==
    IF TruthyId(item.id) THEN StringOfId(Val(item.id))
    ELSE IF TruthyStr(item.url) THEN Base64(Val(item.url))
    ELSE RandomUUID(uuid)

\* Math.round(a / b) for integers a and b # 0: floor(a/b + 1/2)
RoundDiv(a, b) ==
    IF b > 0 THEN (2 * a + b) \div (2 * b) ELSE (-(2 * a) - b) \div (-(2 * b))

TextOr(a, b) == Val(Coalesce(a, Coalesce(b, Some(<<>>))))

DefaultTitle == <<"B", "e", "z", " ", "n", "á", "z", "v", "u">>

sizeOf(item) ==
    Coalesce(item.size, Coalesce(item.area, parseSize(TextOr(item.description, item.title))))

priceOf(item) == Coalesce(item.price, parsePrice(TextOr(item.description, None)))

roomsOf(item) == Coalesce(item.rooms, parseRooms(TextOr(item.title, item.description)))

pricePerM2Of(size, price) ==
    IF TruthySize(size) /\ TruthyNum(price)
    THEN Some(RoundDiv(Val(price) * Val(size).den, Val(size).num))
    ELSE None

transformListing(item, uuid) ==
    [id          |-> createId(item, uuid),
     title       |-> Val(Coalesce(item.title, Some(DefaultTitle))),
     url         |-> Val(Coalesce(item.url, Some(<<"#">>))),
     location    |-> item.locality,
     price       |-> priceOf(item),
     sizeM2      |-> sizeOf(item),
     rooms       |-> roomsOf(item),
     description |-> item.description,
     raw         |-> item,
     derived     |-> [pricePerM2  |-> pricePerM2Of(sizeOf(item), priceOf(item)),
                      sizeM2      |-> sizeOf(item),
                      layoutLabel |-> deriveLayoutLabel(TextOr(item.title, item.description))],
     aiScore     |-> None,
     aiReason    |-> None,
     aiHighlights |-> None]

(***************************************************************************)
(* postProcessListings: deduplicate, map(transformListing), filter         *)
(***************************************************************************)
\* deduped.map(transformListing); uuids[i] is the draw of the i-th call
transformAll(deduped, uuids) ==
    [i \in 1..Len(deduped) |-> transformListing(deduped[i], uuids[i])]

\* a filter that requires the fields it compares to be known
passesFilterStrict(item, params) ==
    /\ TruthyNum(params.priceM2Max) =>
          (TruthyNum(item.derived.pricePerM2)
             /\ Val(item.derived.pricePerM2) <= Val(params.priceM2Max))
    /\ TruthyNum(params.roomsFrom) =>
          (TruthyNum(item.rooms) /\ Val(item.rooms) >= Val(params.roomsFrom))

\* the callback of transformed.filter
passesFilter(item, params) ==
    IF /\ TruthyNum(params.priceM2Max)
       /\ TruthyNum(item.derived.pricePerM2)
       /\ Val(item.derived.pricePerM2) > Val(params.priceM2Max)
    THEN FALSE
    ELSE IF /\ TruthyNum(params.roomsFrom)
            /\ TruthyNum(item.rooms)
            /\ Val(item.rooms) < Val(params.roomsFrom)
    THEN FALSE
    ELSE TRUE

filterListings(transformed, params) ==
    SelectSeq(transformed, LAMBDA item : passesFilter(item, params))

(***************************************************************************)
(* mergeScores: new Map(scores.map(s => [s.id, s])), a later entry of an   *)
(* id replacing an earlier one; items.map keeps length and order.          *)
(***************************************************************************)
HasScore(scores, id) == \E k \in 1..Len(scores) : scores[k].id = id

\* map.get(id): the last entry of that id
ScoreOf(scores, id) ==
    scores[CHOOSE k \in 1..Len(scores) :
              /\ scores[k].id = id
              /\ \A j \in (k + 1)..Len(scores) : scores[j].id # id]

mergeOne(item, scores) ==
    IF ~HasScore(scores, item.id) THEN item
    ELSE [item EXCEPT !.aiScore = ScoreOf(scores, item.id).aiScore,
                      !.aiReason = ScoreOf(scores, item.id).aiReason,
                      !.aiHighlights = ScoreOf(scores, item.id).aiHighlights]

\* a merge that returns the scored listings only
mergeScoresMatchedOnly(items, scores) ==
    SelectSeq([i \in 1..Len(items) |-> mergeOne(items[i], scores)],
              LAMBDA item : HasScore(scores, item.id))

mergeScores(items, scores) == [i \in 1..Len(items) |-> mergeOne(items[i], scores)]

(***************************************************************************)
(* Request validation: searchSchema.parse and normalizePayload             *)
(***************************************************************************)
RECURSIVE TrimLeft(_)
TrimLeft(s) == IF s # <<>> /\ IsSpace(Head(s)) THEN TrimLeft(Tail(s)) ELSE s

RECURSIVE TrimRight(_)
TrimRight(s) ==
    IF s # <<>> /\ IsSpace(s[Len(s)]) THEN TrimRight(SubSeq(s, 1, Len(s) - 1)) ELSE s

\* String.prototype.trim
Trim(s) == TrimRight(TrimLeft(s))

\* z.number().int().positive().optional(), on integer inputs
PositiveOpt(o) == IsSome(o) => Val(o) > 0

\* searchSchema.parse(req.body) does not throw
searchSchemaOk(body) ==
    /\ Len(body.city) >= 2
    /\ PositiveOpt(body.priceMax)
    /\ PositiveOpt(body.priceM2Max)
    /\ PositiveOpt(body.roomsFrom)
    /\ IsSome(body.keywords) =>
          \A k \in 1..Len(Val(body.keywords)) : Len(Trim(Val(body.keywords)[k])) >= 1

\* the value searchSchema.parse returns: keywords are trimmed by the schema
searchSchemaParse(body) ==
    [body EXCEPT !.keywords =
        IF IsSome(body.keywords)
        THEN Some([k \in 1..Len(Val(body.keywords)) |-> Trim(Val(body.keywords)[k])])
        ELSE None]

normalizePayload(parsed) ==
    [city       |-> Trim(parsed.city),
     priceMax   |-> parsed.priceMax,
     priceM2Max |-> parsed.priceM2Max,
     roomsFrom  |-> parsed.roomsFrom,
     keywords   |-> IF IsSome(parsed.keywords)
                    THEN SelectSeq([k \in 1..Len(Val(parsed.keywords)) |->
                                       Trim(Val(parsed.keywords)[k])],
                                   LAMBDA w : w # <<>>)
                    ELSE <<>>]

(***************************************************************************)
(* The request handler as a state machine.  One behaviour is one POST      *)
(* request to the search endpoint.                                         *)
(*                                                                         *)
(* The environment is fixed by the initial state: body is the request      *)
(* body, source the dataset the scraping source holds, remoteScores the    *)
(* results the /api/score endpoint answers with when it answers, and       *)
(* oracleScore the answer of the scoring oracle called in process.         *)
(***************************************************************************)
VARIABLES
    body,           \* req.body
    source,         \* the dataset of the scraping source
    remoteScores,   \* data.results of a successful /api/score call
    oracleScore,    \* what the scoring oracle gives per item, called in process
    pc,             \* position of the handler
    stages,         \* stages of the request passed so far, in order
    parsed,         \* searchSchema.parse(req.body)
    normalized,     \* normalizePayload(parsed)
    searches,       \* rows of the table searches (their ids)
    results,        \* rows of the table results
    searchId,       \* the handler's searchId
    rawListings,    \* the handler's rawListings
    deduped,        \* postProcessListings: deduped
    transformed,    \* postProcessListings: transformed
    processed,      \* the handler's processed
    scoreResults,   \* the handler's scoreResults
    enrichedResults,\* the handler's enrichedResults
    oracleCalls,    \* how often requestAiScoring was called
    localCalls,     \* how often scoreRealEstateItems was called by the handler
    response,       \* the response sent: None, or [status, searchId, results, error]
    calls,          \* the collaborators the handler has invoked so far, in order
    pollPc,         \* position of pollRunForDataset
    elapsed,        \* pollRunForDataset: Date.now() - start, in ms
    lastCheckAt,    \* elapsed when the latest status check was started
    lastStatus,     \* what the latest status check answered
    pollResult      \* what pollRunForDataset returned or threw

pollVars == <<pollPc, elapsed, lastCheckAt, lastStatus, pollResult>>

handlerVars ==
    <<body, source, remoteScores, oracleScore, pc, stages, parsed, normalized,
      searches, results, searchId, rawListings, deduped, transformed, processed,
      scoreResults, enrichedResults, oracleCalls, localCalls, response, calls>>

vars == <<handlerVars, pollVars>>

env == <<body, source, remoteScores, oracleScore>>

\* the id the store generates for the search row of this request
NewSearchId == 1

SeqsUpTo(S, n) == UNION {[1..k -> S] : k \in 0..n}

\* injective sequences of length n over 1..m: pairwise distinct random draws
Draws(n, m) == {d \in [1..n -> 1..m] : \A i, j \in 1..n : i # j => d[i] # d[j]}

\* pollRunForDataset is not running
PollIdle ==
    /\ pollPc = "idle"
    /\ elapsed = 0
    /\ lastCheckAt = None
    /\ lastStatus = None
    /\ pollResult = None

\* the handler has received the request
InitRequest ==
    /\ calls = <<>>
    /\ pc = "parse"
    /\ stages = <<"Received">>
    /\ parsed = None
    /\ normalized = None
    /\ searches = {}
    /\ results = <<>>
    /\ searchId = None
    /\ rawListings = <<>>
    /\ deduped = <<>>
    /\ transformed = <<>>
    /\ processed = <<>>
    /\ scoreResults = <<>>
    /\ enrichedResults = <<>>
    /\ oracleCalls = 0
    /\ localCalls = 0
    /\ response = None

InitHandler == PollIdle /\ InitRequest

\* a catch block that also sends what the request had collected so far
AbortWithResults(message) ==
    /\ pc' = "done"
    /\ stages' = Append(stages, "Failed")
    /\ response' = Some([status |-> 500, searchId |-> searchId,
                         results |-> Some(enrichedResults), error |-> Some(message)])

\* the catch block of the handler: res.status(500).json({ error: message })
Abort(message) ==
    /\ pc' = "done"
    /\ stages' = Append(stages, "Failed")
    /\ response' = Some([status |-> 500, searchId |-> None, results |-> None,
                         error |-> Some(message)])

\* a handler that normalizes the body without validating it
ParseUnchecked ==
    /\ pc = "parse"
    /\ UNCHANGED calls
    /\ parsed' = Some(searchSchemaParse(body))
    /\ normalized' = Some(normalizePayload(searchSchemaParse(body)))
    /\ pc' = "persistSearch"
    /\ UNCHANGED <<env, pollVars, stages, searches, results, searchId, rawListings, deduped,
                   transformed, processed, scoreResults, enrichedResults,
                   oracleCalls, localCalls, response>>

\* searchSchema.parse and normalizePayload
Parse ==
    /\ pc = "parse"
    /\ UNCHANGED calls
    /\ searchSchemaOk(body)
    /\ parsed' = Some(searchSchemaParse(body))
    /\ normalized' = Some(normalizePayload(searchSchemaParse(body)))
    /\ pc' = "persistSearch"
    /\ UNCHANGED <<env, pollVars, stages, searches, results, searchId, rawListings, deduped,
                   transformed, processed, scoreResults, enrichedResults,
                   oracleCalls, localCalls, response>>

\* searchSchema.parse throws a ZodError
ParseFail ==
    /\ pc = "parse"
    /\ UNCHANGED calls
    /\ ~searchSchemaOk(body)
    /\ Abort("validation")
    /\ UNCHANGED <<env, pollVars, parsed, normalized, searches, results, searchId, rawListings,
                   deduped, transformed, processed, scoreResults, enrichedResults,
                   oracleCalls, localCalls>>

\* persistSearch inserts the row and returns its id
PersistSearch ==
    /\ pc = "persistSearch"
    /\ calls' = calls \o <<"persistSearch">>
    /\ searches' = searches \cup {NewSearchId}
    /\ searchId' = Some(NewSearchId)
    /\ pc' = "trigger"
    /\ UNCHANGED <<env, pollVars, stages, parsed, normalized, results, rawListings, deduped,
                   transformed, processed, scoreResults, enrichedResults,
                   oracleCalls, localCalls, response>>

\* persistSearch throws: the environment variables are missing or the insert fails
PersistSearchFail ==
    /\ pc = "persistSearch"
    /\ calls' = calls \o <<"persistSearch">>
    /\ Abort("Failed to persist search")
    /\ UNCHANGED <<env, pollVars, parsed, normalized, searches, results, searchId, rawListings,
                   deduped, transformed, processed, scoreResults, enrichedResults,
                   oracleCalls, localCalls>>

\* fetchListingsFromApify: the actor run is created
Trigger ==
    /\ pc = "trigger"
    /\ calls' = calls \o <<"scrapeTrigger">>
    /\ pc' = "poll"
    /\ UNCHANGED <<env, pollVars, stages, parsed, normalized, searches, results, searchId,
                   rawListings, deduped, transformed, processed, scoreResults,
                   enrichedResults, oracleCalls, localCalls, response>>

\* no APIFY_TOKEN, the run creation is refused, or the run id is missing
TriggerFail ==
    /\ pc = "trigger"
    /\ calls' = calls \o <<"scrapeTrigger">>
    /\ Abort("Apify run creation failed")
    /\ UNCHANGED <<env, pollVars, parsed, normalized, searches, results, searchId, rawListings,
                   deduped, transformed, processed, scoreResults, enrichedResults,
                   oracleCalls, localCalls>>

\* pollRunForDataset returns the dataset id: the run SUCCEEDED
Poll ==
    /\ pc = "poll"
    /\ calls' = calls \o <<"scrapePoll">>
    /\ pc' = "download"
    /\ UNCHANGED <<env, pollVars, stages, parsed, normalized, searches, results, searchId,
                   rawListings, deduped, transformed, processed, scoreResults,
                   enrichedResults, oracleCalls, localCalls, response>>

\* pollRunForDataset throws: a status check fails, the run ends FAILED, ABORTED
\* or TIMED-OUT, the dataset id is missing, or the polling times out
PollFail ==
    /\ pc = "poll"
    /\ calls' = calls \o <<"scrapePoll">>
    /\ \E message \in {"Failed to poll Apify run", "Apify run ended with status",
                       "Apify run succeeded but dataset id missing",
                       "Apify run polling timed out"} : Abort(message)
    /\ UNCHANGED <<env, pollVars, parsed, normalized, searches, results, searchId, rawListings,
                   deduped, transformed, processed, scoreResults, enrichedResults,
                   oracleCalls, localCalls>>

\* downloadDataset returns the items of the dataset
Download ==
    /\ pc = "download"
    /\ calls' = calls \o <<"scrapeDownload">>
    /\ rawListings' = source
    /\ pc' = "deduplicate"
    /\ UNCHANGED <<env, pollVars, stages, parsed, normalized, searches, results, searchId,
                   deduped, transformed, processed, scoreResults, enrichedResults,
                   oracleCalls, localCalls, response>>

DownloadFail ==
    /\ pc = "download"
    /\ calls' = calls \o <<"scrapeDownload">>
    /\ Abort("Failed to download Apify dataset")
    /\ UNCHANGED <<env, pollVars, parsed, normalized, searches, results, searchId, rawListings,
                   deduped, transformed, processed, scoreResults, enrichedResults,
                   oracleCalls, localCalls>>

\* postProcessListings, first statement: deduplicate(listings)
Deduplicate ==
    /\ pc = "deduplicate"
    /\ UNCHANGED calls
    /\ \E rnd \in Draws(Len(rawListings), Len(rawListings)) :
          deduped' = deduplicate(rawListings, rnd)
    /\ stages' = Append(stages, "Deduplicated")
    /\ pc' = "transform"
    /\ UNCHANGED <<env, pollVars, parsed, normalized, searches, results, searchId, rawListings,
                   transformed, processed, scoreResults, enrichedResults,
                   oracleCalls, localCalls, response>>

\* postProcessListings, second statement: deduped.map(transformListing)
Transform ==
    /\ pc = "transform"
    /\ UNCHANGED calls
    /\ \E uuids \in Draws(Len(deduped), Len(deduped) + 1) :
          transformed' = transformAll(deduped, uuids)
    /\ stages' = Append(stages, "Normalized")
    /\ pc' = "filter"
    /\ UNCHANGED <<env, pollVars, parsed, normalized, searches, results, searchId, rawListings,
                   deduped, processed, scoreResults, enrichedResults,
                   oracleCalls, localCalls, response>>

\* postProcessListings, the return statement: transformed.filter(...)
Filter ==
    /\ pc = "filter"
    /\ UNCHANGED calls
    /\ processed' = filterListings(transformed, Val(normalized))
    /\ enrichedResults' = filterListings(transformed, Val(normalized))
    /\ stages' = Append(stages, "Filtered")
    /\ pc' = "score"
    /\ UNCHANGED <<env, pollVars, parsed, normalized, searches, results, searchId, rawListings,
                   deduped, transformed, scoreResults, oracleCalls, localCalls, response>>

(***************************************************************************)
(* Scoring: requestAiScoring, scoreRealEstateItems (as the handler sees    *)
(* it) and mergeScores.                                                    *)
(***************************************************************************)
aiScoringRequested == IsSome(parsed) /\ Val(parsed).aiScoring = Some(TRUE)

\* What one call of the scoring oracle gives, as the code reads it.  kind is
\*   "throws"     client.chat.completions.create rejects
\*   "noContent"  the completion has no message content
\*   "malformed"  the content is text JSON.parse throws on
\*   "jsonNull"   the content is the JSON text null
\*   "object"     the content is a JSON object; score, reasoning and
\*                highlights are its members (None: the member is missing)
Completion(kind, score, reasoning, highlights) ==
    [kind |-> kind, score |-> score, reasoning |-> reasoning,
     highlights |-> highlights]

\* a number of the code is Some(n); NaN is a number that equals no Some(n)
NaN == <<"NaN", "NaN">>

InRange(score) == Len(score) = 1 /\ score[1] >= 0 /\ score[1] <= 100

\* Math.min(100, Math.max(0, score)); Math.max(0, undefined) is NaN
Clamp(score) ==
    IF ~IsSome(score) THEN NaN
    ELSE IF Val(score) < 0 THEN Some(0)
    ELSE IF Val(score) > 100 THEN Some(100)
    ELSE score

ParseFailureNote ==
    <<"O", "p", "e", "n", "A", "I", " ", "r", "e", "s", "p", "o", "n",
        "s", "e", " ", "c", "o", "u", "l", "d", " ", "n", "o", "t", " ", "b",
        "e", " ", "p", "a", "r", "s", "e", "d", ".">>

\* completion.choices[0]?.message?.content ?? "{}"
MessageOf(completion) ==
    IF completion.kind = "noContent"
    THEN Completion("object", None, None, None)
    ELSE completion

\* a parseScore whose catch block leaves the reasoning empty
parseScoreNoNote(message) ==
    IF message.kind = "object"
    THEN [score      |-> Clamp(message.score),
          reasoning  |-> Val(Coalesce(message.reasoning, Some(<<>>))),
          highlights |-> Val(Coalesce(message.highlights, Some(<<>>)))]
    ELSE [score |-> Some(0), reasoning |-> <<>>, highlights |-> <<>>]

\* parseScore: JSON.parse throws on malformed text, and reading a member of
\* null throws; both end in the catch block
parseScore(message) ==
    IF message.kind = "object"
    THEN [score      |-> Clamp(message.score),
          reasoning  |-> Val(Coalesce(message.reasoning, Some(<<>>))),
          highlights |-> Val(Coalesce(message.highlights, Some(<<>>)))]
    ELSE [score |-> Some(0), reasoning |-> ParseFailureNote, highlights |-> <<>>]

\* results.push({ id, aiScore, aiReason, aiHighlights })
ItemResult(item, completion) ==
    [id           |-> item.id,
     aiScore      |-> parseScore(MessageOf(completion)).score,
     aiReason     |-> Some(parseScore(MessageOf(completion)).reasoning),
     aiHighlights |-> Some(parseScore(MessageOf(completion)).highlights)]

\* for (const item of items): the oracle is called item by item; a call that
\* rejects ends the routine with nothing returned
RECURSIVE ScoreLoop(_, _, _)
ScoreLoop(items, i, acc) ==
    IF i > Len(items) THEN [threw |-> FALSE, results |-> acc]
    ELSE IF oracleScore[i].kind = "throws" THEN [threw |-> TRUE, results |-> <<>>]
    ELSE ScoreLoop(items, i + 1, Append(acc, ItemResult(items[i], oracleScore[i])))

\* scoreRealEstateItems(items) with OPENAI_API_KEY configured
scoreRealEstateItems(items) == ScoreLoop(items, 1, <<>>)

\* a handler that never asks for scores
SkipScoringAlways ==
    /\ pc = "score"
    /\ UNCHANGED calls
    /\ stages' = Append(stages, "Unscored")
    /\ pc' = "persistResults"
    /\ UNCHANGED <<env, pollVars, parsed, normalized, searches, results, searchId, rawListings,
                   deduped, transformed, processed, scoreResults, enrichedResults,
                   oracleCalls, localCalls, response>>

\* if (parsed.aiScoring) is false: enrichedResults stays processed
SkipScoring ==
    /\ pc = "score"
    /\ UNCHANGED calls
    /\ ~aiScoringRequested
    /\ stages' = Append(stages, "Unscored")
    /\ pc' = "persistResults"
    /\ UNCHANGED <<env, pollVars, parsed, normalized, searches, results, searchId, rawListings,
                   deduped, transformed, processed, scoreResults, enrichedResults,
                   oracleCalls, localCalls, response>>

\* requestAiScoring: the call of /api/score succeeds; then mergeScores
ScoreRemote ==
    /\ pc = "score"
    /\ calls' = calls \o <<"scoreRemote">>
    /\ aiScoringRequested
    /\ scoreResults' = remoteScores
    /\ enrichedResults' = mergeScores(processed, remoteScores)
    /\ oracleCalls' = oracleCalls + 1
    /\ stages' = Append(stages, "Scored")
    /\ pc' = "persistResults"
    /\ UNCHANGED <<env, pollVars, parsed, normalized, searches, results, searchId, rawListings,
                   deduped, transformed, processed, localCalls, response>>

\* requestAiScoring: no base URL, or the call of /api/score fails, and the local
\* scoring routine returns; then mergeScores
ScoreLocal ==
    /\ pc = "score"
    /\ \E cause \in {"noBaseUrl", "scoreRemoteFailed"} :
          calls' = calls \o <<cause, "scoreLocal">>
    /\ aiScoringRequested
    /\ ~scoreRealEstateItems(processed).threw
    /\ scoreResults' = scoreRealEstateItems(processed).results
    /\ enrichedResults' = mergeScores(processed, scoreRealEstateItems(processed).results)
    /\ oracleCalls' = oracleCalls + 1
    /\ localCalls' = localCalls + 1
    /\ stages' = Append(stages, "Scored")
    /\ pc' = "persistResults"
    /\ UNCHANGED <<env, pollVars, parsed, normalized, searches, results, searchId, rawListings,
                   deduped, transformed, processed, response>>

\* a requestAiScoring without the fallback: the failed call of /api/score ends
\* the request
ScoreFailNoFallback ==
    /\ pc = "score"
    /\ calls' = calls \o <<"scoreRemoteFailed">>
    /\ aiScoringRequested
    /\ processed # <<>>
    /\ oracleCalls' = oracleCalls + 1
    /\ Abort("AI scoring API failed")
    /\ UNCHANGED <<env, pollVars, parsed, normalized, searches, results, searchId, rawListings,
                   deduped, transformed, processed, scoreResults, enrichedResults,
                   localCalls>>

\* requestAiScoring: the fallback throws too (no OPENAI_API_KEY, or an oracle
\* call fails); scoreRealEstateItems returns [] before either for no items
ScoreFail ==
    /\ pc = "score"
    /\ \E cause \in {"noBaseUrl", "scoreRemoteFailed"} :
          calls' = calls \o <<cause, "scoreLocal">>
    /\ aiScoringRequested
    /\ processed # <<>>
    /\ oracleCalls' = oracleCalls + 1
    /\ localCalls' = localCalls + 1
    /\ \/ Abort("OPENAI_API_KEY is not configured")
       \/ /\ scoreRealEstateItems(processed).threw
          /\ Abort("the scoring oracle call failed")
    /\ UNCHANGED <<env, pollVars, parsed, normalized, searches, results, searchId, rawListings,
                   deduped, transformed, processed, scoreResults, enrichedResults>>

(***************************************************************************)
(* persistResults and the success response                                 *)
(***************************************************************************)
\* the rows persistResults inserts
ResultRows(id, items) ==
    [i \in 1..Len(items) |->
        [search_id |-> id,
         data_json |-> items[i],
         ai_score  |-> items[i].aiScore,
         ai_reason |-> items[i].aiReason]]

\* persistResults returns: at once for no items, else after the insert
PersistResults ==
    /\ pc = "persistResults"
    /\ calls' = calls \o <<"persistResults">>
    /\ results' = IF enrichedResults = <<>> THEN results
                  ELSE results \o ResultRows(Val(searchId), enrichedResults)
    /\ stages' = Append(stages, "Persisted")
    /\ pc' = "respond"
    /\ UNCHANGED <<env, pollVars, parsed, normalized, searches, searchId, rawListings, deduped,
                   transformed, processed, scoreResults, enrichedResults,
                   oracleCalls, localCalls, response>>

\* persistResults throws: the environment variables are missing or the insert fails
PersistResultsFail ==
    /\ pc = "persistResults"
    /\ calls' = calls \o <<"persistResults">>
    /\ enrichedResults # <<>>
    /\ Abort("Failed to persist results")
    /\ UNCHANGED <<env, pollVars, parsed, normalized, searches, results, searchId, rawListings,
                   deduped, transformed, processed, scoreResults, enrichedResults,
                   oracleCalls, localCalls>>

\* res.status(200).json({ searchId, results: enrichedResults })
Respond ==
    /\ pc = "respond"
    /\ UNCHANGED calls
    /\ response' = Some([status |-> 200, searchId |-> searchId,
                         results |-> Some(enrichedResults), error |-> None])
    /\ stages' = Append(stages, "Responded")
    /\ pc' = "done"
    /\ UNCHANGED <<env, pollVars, parsed, normalized, searches, results, searchId, rawListings,
                   deduped, transformed, processed, scoreResults, enrichedResults,
                   oracleCalls, localCalls>>

Next ==
    \/ Parse
    \/ ParseFail
    \/ PersistSearch
    \/ PersistSearchFail
    \/ Trigger
    \/ TriggerFail
    \/ Poll
    \/ PollFail
    \/ Download
    \/ DownloadFail
    \/ Deduplicate
    \/ Transform
    \/ Filter
    \/ SkipScoring
    \/ ScoreRemote
    \/ ScoreLocal
    \/ ScoreFail
    \/ PersistResults
    \/ PersistResultsFail
    \/ Respond

(***************************************************************************)
(* pollRunForDataset step by step.  elapsed is Date.now() - start; time     *)
(* passes while a status check or the sleep is awaited.  A status check     *)
(* answers [ok, status, datasetId]: ok is statusResponse.ok.                *)
(***************************************************************************)
POLL_INTERVAL_MS == 2000
MAX_POLL_DURATION_MS == 120000

\* how long a status check may take, and how late the sleep timer may fire
Latencies == {0, 1000, 3000}
SleepLag == {0, 1000}

DatasetId == <<"d", "1">>

CheckAnswer(ok, status, datasetId) ==
    [ok |-> ok, status |-> status, datasetId |-> datasetId]

Returned(value) == Some([returned |-> Some(value), threw |-> None])
Threw(message) == Some([returned |-> None, threw |-> Some(message)])

\* a loop test that lets a check start at the maximum wait itself
PollEnterLate ==
    /\ pollPc = "test"
    /\ elapsed <= MAX_POLL_DURATION_MS
    /\ lastCheckAt' = Some(elapsed)
    /\ pollPc' = "check"
    /\ UNCHANGED <<handlerVars, elapsed, lastStatus, pollResult>>

\* while (Date.now() - start < MAX_POLL_DURATION_MS): the status check starts
PollEnter ==
    /\ pollPc = "test"
    /\ elapsed < MAX_POLL_DURATION_MS
    /\ lastCheckAt' = Some(elapsed)
    /\ pollPc' = "check"
    /\ UNCHANGED <<handlerVars, elapsed, lastStatus, pollResult>>

\* the loop condition is false: throw new Error("Apify run polling timed out")
PollTimeout ==
    /\ pollPc = "test"
    /\ ~(elapsed < MAX_POLL_DURATION_MS)
    /\ pollResult' = Threw("Apify run polling timed out")
    /\ pollPc' = "threw"
    /\ UNCHANGED <<handlerVars, elapsed, lastCheckAt, lastStatus>>

\* the status check fails: fetch rejects or !statusResponse.ok
PollCheckFails ==
    /\ pollPc = "check"
    /\ \E d \in Latencies : elapsed' = elapsed + d
    /\ lastStatus' = Some(CheckAnswer(FALSE, None, None))
    /\ pollResult' = Threw("Failed to poll Apify run")
    /\ pollPc' = "threw"
    /\ UNCHANGED <<handlerVars, lastCheckAt>>

\* status === "SUCCEEDED" with a defaultDatasetId: return datasetId
PollSucceeded ==
    /\ pollPc = "check"
    /\ \E d \in Latencies : elapsed' = elapsed + d
    /\ lastStatus' = Some(CheckAnswer(TRUE, Some("SUCCEEDED"), Some(DatasetId)))
    /\ pollResult' = Returned(DatasetId)
    /\ pollPc' = "returned"
    /\ UNCHANGED <<handlerVars, lastCheckAt>>

\* status === "SUCCEEDED" and !datasetId
PollNoDataset ==
    /\ pollPc = "check"
    /\ \E d \in Latencies : elapsed' = elapsed + d
    /\ lastStatus' = Some(CheckAnswer(TRUE, Some("SUCCEEDED"), None))
    /\ pollResult' = Threw("Apify run succeeded but dataset id missing")
    /\ pollPc' = "threw"
    /\ UNCHANGED <<handlerVars, lastCheckAt>>

\* ["FAILED", "ABORTED", "TIMED-OUT"].includes(status)
PollRunEnded ==
    /\ pollPc = "check"
    /\ \E d \in Latencies : elapsed' = elapsed + d
    /\ \E st \in {"FAILED", "ABORTED", "TIMED-OUT"} :
          lastStatus' = Some(CheckAnswer(TRUE, Some(st), None))
    /\ pollResult' = Threw("Apify run ended with status")
    /\ pollPc' = "threw"
    /\ UNCHANGED <<handlerVars, lastCheckAt>>

\* any other status: go on to await sleep(POLL_INTERVAL_MS)
PollRunning ==
    /\ pollPc = "check"
    /\ \E d \in Latencies : elapsed' = elapsed + d
    /\ \E st \in {"READY", "RUNNING"} :
          lastStatus' = Some(CheckAnswer(TRUE, Some(st), None))
    /\ pollPc' = "sleep"
    /\ UNCHANGED <<handlerVars, lastCheckAt, pollResult>>

\* await sleep(POLL_INTERVAL_MS): the timer fires no earlier than the interval
PollSleep ==
    /\ pollPc = "sleep"
    /\ \E d \in SleepLag : elapsed' = elapsed + POLL_INTERVAL_MS + d
    /\ pollPc' = "test"
    /\ UNCHANGED <<handlerVars, lastCheckAt, lastStatus, pollResult>>

NextPoll ==
    \/ PollEnter
    \/ PollTimeout
    \/ PollCheckFails
    \/ PollSucceeded
    \/ PollNoDataset
    \/ PollRunEnded
    \/ PollRunning
    \/ PollSleep

(***************************************************************************)
(* Inputs.  Every specification runs the same handler; they differ in the  *)
(* requests, datasets and scoring answers their initial states draw.       *)
(***************************************************************************)
\* longest dataset, longest /api/score answer
MaxListings == 2
MaxScores == 2

Raw(id, url, title, description, size, area, price, rooms) ==
    [id |-> id, url |-> url, title |-> title, description |-> description,
     size |-> size, area |-> area, price |-> price, rooms |-> rooms,
     locality |-> None]

Body(city, priceMax, priceM2Max, roomsFrom, keywords, aiScoring) ==
    [city |-> city, priceMax |-> priceMax, priceM2Max |-> priceM2Max,
     roomsFrom |-> roomsFrom, keywords |-> keywords, aiScoring |-> aiScoring]

Brno == <<"B", "r", "n", "o">>

\* two scoring answers that differ in every field
LowScore == [aiScore |-> Some(40), aiReason |-> Some(<<"l", "o", "w">>),
             aiHighlights |-> Some(<<>>)]
HighScore == [aiScore |-> Some(90), aiReason |-> Some(<<"h", "i">>),
              aiHighlights |-> Some(<<<<"n", "e", "w">>>>)]

\* the oracle outputs that are scored as LowScore and HighScore
LowOutput == Completion("object", Some(40), Some(<<"l", "o", "w">>), Some(<<>>))
HighOutput == Completion("object", Some(90), Some(<<"h", "i">>),
                         Some(<<<<"n", "e", "w">>>>))

ScoreResult(id, answer) ==
    [id |-> id, aiScore |-> answer.aiScore, aiReason |-> answer.aiReason,
     aiHighlights |-> answer.aiHighlights]

\* the oracle's answers, one per item position, alternating
OracleAnswers(first, second) ==
    [i \in 1..(MaxListings + 1) |-> IF i % 2 = 1 THEN first ELSE second]

\* requests that differ only in validity and in whether scores are asked for
PlainBodies ==
    {Body(city, None, None, None, None, ai) :
        city \in {Brno, <<"B">>}, ai \in {None, Some(TRUE)}}

PlainScores == {<<>>, <<ScoreResult(<<"1">>, LowScore)>>}

T55 == <<"K", "r", "á", "s", "n", "ý", " ", "b", "y", "t", " ", "2", "+", "k", "k",
         ",", " ", "5", "5", " ", "m", "2">>
Cena == <<"C", "e", "n", "a", " ", "4", "5", "0", "0", "0", "0", "0", " ", "K", "c">>

(***************************************************************************)
(* SpecDedup: datasets whose listings differ in identifier and URL.        *)
(***************************************************************************)
IdentityRaws ==
    {Raw(id, url, None, None, None, None, None, None) :
        id \in {None, Some(NumId(0)), Some(NumId(1)), Some(StrId(<<"a">>))},
        url \in {None, Some(<<"a">>), Some(<<"b">>), Some(<<"1">>)}}

InitDedup ==
    /\ InitHandler
    /\ body \in PlainBodies
    /\ source \in SeqsUpTo(IdentityRaws, MaxListings)
    /\ remoteScores \in PlainScores
    /\ oracleScore = OracleAnswers(LowOutput, HighOutput)

SpecDedup == InitDedup /\ [][Next]_vars

Deduplicated == \E k \in 1..Len(stages) : stages[k] = "Deduplicated"
Normalized == \E k \in 1..Len(stages) : stages[k] = "Normalized"
Filtered == \E k \in 1..Len(stages) : stages[k] = "Filtered"

\* the identity a raw listing carries: its URL, else its stringified id, else none
IdentityOf(item) ==
    IF IsSome(item.url) THEN item.url
    ELSE IF IsSome(item.id) THEN Some(StringOfId(Val(item.id)))
    ELSE None

\* positions of the listings that are the first of their identity, or carry none
FirstOfIdentity(listings) ==
    {i \in 1..Len(listings) :
        \/ ~IsSome(IdentityOf(listings[i]))
        \/ \A j \in 1..(i - 1) : IdentityOf(listings[j]) # IdentityOf(listings[i])}

RECURSIVE PickAt(_, _, _)
\* the subsequence of seq at the positions of P that are >= i, in order
PickAt(seq, P, i) ==
    IF i > Len(seq) THEN <<>>
    ELSE IF i \in P THEN <<seq[i]>> \o PickAt(seq, P, i + 1)
    ELSE PickAt(seq, P, i + 1)

\* C1: deduplicate returns the subsequence of its input, in input order, made of
\* the first listing of every identity key (URL, else stringified id) and of
\* every listing that has neither URL nor id: at most one entry per key, none
\* longer than the input, no keyless listing dropped.
DedupFirstSeen ==
    Deduplicated =>
        /\ deduped = PickAt(rawListings, FirstOfIdentity(rawListings), 1)
        /\ Len(deduped) <= Len(rawListings)
        /\ \A i, j \in 1..Len(deduped) :
              (i # j /\ IsSome(IdentityOf(deduped[i])))
                 => IdentityOf(deduped[i]) # IdentityOf(deduped[j])

\* a dataset with two listings of one key, and one with a keyless listing kept
DedupDropsSecond ==
    /\ Deduplicated
    /\ Len(rawListings) = 2
    /\ Len(deduped) = 1
    /\ rawListings[1] # rawListings[2]

\* C2: after deduplicate and transformListing on every survivor no two
\* canonical listings carry the same id.
UniqueIds ==
    Normalized =>
        \A i, j \in 1..Len(transformed) : i # j => transformed[i].id # transformed[j].id

\* C3: a raw record with an id or a URL present normalizes to the same id
\* whatever crypto.randomUUID() returns: the stringified id if the id is
\* present, else the base64 encoding of the URL.
IdDeterministic ==
    Normalized =>
        \A i \in 1..Len(deduped) :
            (IsSome(deduped[i].id) \/ IsSome(deduped[i].url)) =>
                /\ \A u \in 1..(MaxListings + 1) :
                      createId(deduped[i], u) = transformed[i].id
                /\ transformed[i].id =
                      IF IsSome(deduped[i].id) THEN StringOfId(Val(deduped[i].id))
                      ELSE Base64(Val(deduped[i].url))

(***************************************************************************)
(* SpecNorm: datasets of one listing, differing in the fields the          *)
(* normalizer reads.                                                       *)
(***************************************************************************)
T3kk == <<"B", "y", "t", " ", "3", "k", "k", " ", "7", "0", "m", "²">>
D60 == <<"1", " ", "K", "K", ",", " ", "6", "0", ".", "5", " ", "M", "2", ",", " ",
         "c", "e", "n", "a", " ", "0", "0", " ", "C", "Z", "K">>

ContentRaws ==
    {Raw(id, None, title, description, size, area, price, rooms) :
        id \in {None, Some(NumId(7))},
        title \in {None, Some(T55), Some(T3kk)},
        description \in {None, Some(Cena), Some(D60)},
        size \in {None, Some(Whole(0)), Some(Whole(50))},
        area \in {None, Some(Whole(40))},
        price \in {None, Some(0), Some(3000000)},
        rooms \in {None, Some(0), Some(2)}}

InitNorm ==
    /\ InitHandler
    /\ body \in PlainBodies
    /\ source \in {<<r>> : r \in ContentRaws}
    /\ remoteScores \in PlainScores
    /\ oracleScore = OracleAnswers(LowOutput, HighOutput)

SpecNorm == InitNorm /\ [][Next]_vars

\* C4: pricePerM2 is present iff price is present, sizeM2 is present and
\* sizeM2 > 0, and then it equals round(price / sizeM2).
PricePerM2Iff ==
    Normalized =>
        \A i \in 1..Len(transformed) :
            LET c == transformed[i]
            IN  /\ IsSome(c.derived.pricePerM2)
                     <=> (IsSome(c.price) /\ IsSome(c.sizeM2) /\ Val(c.sizeM2).num > 0)
                /\ IsSome(c.derived.pricePerM2) =>
                     Val(c.derived.pricePerM2)
                        = RoundDiv(Val(c.price) * Val(c.sizeM2).den, Val(c.sizeM2).num)

\* C5: sizeM2 is the explicit size, else the explicit area, else the first
\* m2 match of the title (the description only when there is no title); the
\* listing titled "Krásný byt 2+kk, 55 m2" with description "Cena 4500000 Kc"
\* and no explicit fields normalizes to sizeM2 = 55, price = 4500000, rooms = 2,
\* pricePerM2 = 81818.
SizeFromTitleFirst ==
    Normalized =>
        \A i \in 1..Len(transformed) :
            LET c == transformed[i]
                r == deduped[i]
            IN  /\ c.sizeM2 = Coalesce(r.size, Coalesce(r.area,
                                 parseSize(TextOr(r.title, r.description))))
                /\ (/\ r.title = Some(T55)
                    /\ r.description = Some(Cena)
                    /\ r.size = None /\ r.area = None
                    /\ r.price = None /\ r.rooms = None)
                   => /\ c.sizeM2 = Some(Whole(55))
                      /\ c.price = Some(4500000)
                      /\ c.rooms = Some(2)
                      /\ c.derived.pricePerM2 = Some(81818)

(***************************************************************************)
(* SpecFilter: datasets whose listings differ in rooms and price per m2,   *)
(* requests that differ in the constraints.                                *)
(***************************************************************************)
FilterRaws ==
    {Raw(None, Some(url), None, None, Some(Whole(1)), None, price, rooms) :
        url \in {<<"a">>, <<"b">>},
        price \in {None, Some(300)},
        rooms \in {None, Some(0), Some(2)}}

FilterBodies ==
    {Body(Brno, other[1], priceM2Max, roomsFrom, other[2], other[3]) :
        other \in {<<None, None, None>>,
                   <<Some(250), Some(<<<<"s", "k", "l", "e", "p">>>>), Some(TRUE)>>},
        priceM2Max \in {None, Some(200), Some(300)},
        roomsFrom \in {None, Some(1), Some(3)}}
    \cup {Body(Brno, None, None, Some(0), None, None)}

InitFilter ==
    /\ InitHandler
    /\ body \in FilterBodies
    /\ source \in SeqsUpTo(FilterRaws, MaxListings)
    /\ remoteScores = <<>>
    /\ oracleScore = OracleAnswers(LowOutput, HighOutput)

SpecFilter == InitFilter /\ [][Next]_vars

\* the listing proves a violation of a supplied constraint
ProvenViolation(c, p) ==
    \/ /\ IsSome(p.priceM2Max)
       /\ IsSome(c.derived.pricePerM2)
       /\ Val(c.derived.pricePerM2) > Val(p.priceM2Max)
    \/ /\ IsSome(p.roomsFrom)
       /\ IsSome(c.rooms)
       /\ Val(c.rooms) < Val(p.roomsFrom)

\* C6: the filter excludes every listing that proves a violation: known rooms
\* (0 included) below roomsFrom, or known pricePerM2 above priceM2Max.
ExcludesProvenViolations ==
    Filtered =>
        \A i \in 1..Len(processed) : ~ProvenViolation(processed[i], Val(normalized))

\* C7: the filter's output is an order-preserving subsequence of its input
\* that keeps every listing proving no violation (unknown rooms, unknown
\* pricePerM2 and absent constraints reject nothing), and it is the same
\* whatever priceMax and keywords are.
RejectsOnlyProvenViolations ==
    Filtered =>
        /\ \E K \in SUBSET (1..Len(transformed)) :
              /\ \A i \in 1..Len(transformed) :
                    ~ProvenViolation(transformed[i], Val(normalized)) => i \in K
              /\ processed = PickAt(transformed, K, 1)
        /\ \A priceMax \in {None, Some(1), Some(250)} :
              \A keywords \in {<<>>, <<<<"s", "k", "l", "e", "p">>>>} :
                  processed = filterListings(transformed,
                                  [Val(normalized) EXCEPT !.priceMax = priceMax,
                                                          !.keywords = keywords])

\* a listing of unknown rooms passes a roomsFrom filter that rejects another one,
\* under a request that carries priceMax and keywords
UnknownRoomsPass ==
    /\ Filtered
    /\ IsSome(Val(normalized).roomsFrom)
    /\ IsSome(Val(normalized).priceMax)
    /\ Val(normalized).keywords # <<>>
    /\ Len(processed) < Len(transformed)
    /\ \E i \in 1..Len(processed) : processed[i].rooms = None

(***************************************************************************)
(* SpecMerge: datasets whose canonical ids match, miss or repeat, and      *)
(* /api/score answers that cover, miss or repeat ids.                      *)
(***************************************************************************)
MergeRaws ==
    {Raw(Some(NumId(1)), None, None, None, None, None, None, None),
     Raw(Some(NumId(1)), Some(<<"b">>), None, None, None, None, None, None),
     Raw(None, Some(<<"a">>), None, None, None, None, None, None),
     Raw(Some(NumId(2)), None, None, None, None, None, None, None)}

MergeScoreResults ==
    {ScoreResult(id, answer) :
        id \in {<<"1">>, <<"Y", "Q", "=", "=">>, <<"z">>},
        answer \in {LowScore, HighScore}}

InitMerge ==
    /\ InitHandler
    /\ source \in SeqsUpTo(MergeRaws, MaxListings)
    /\ oracleScore \in {OracleAnswers(LowOutput, HighOutput), OracleAnswers(HighOutput, LowOutput)}
    /\ \/ /\ body = Body(Brno, None, None, None, None, Some(TRUE))
          /\ remoteScores \in SeqsUpTo(MergeScoreResults, MaxScores)
       \/ /\ body \in {Body(Brno, None, None, None, None, Some(FALSE)),
                       Body(<<" ">>, None, None, None, None, None)}
          /\ remoteScores = <<>>

SpecMerge == InitMerge /\ [][Next]_vars

Scored == \E k \in 1..Len(stages) : stages[k] = "Scored"

Matches(item) == {k \in 1..Len(scoreResults) : scoreResults[k].id = item.id}

\* C8: mergeScores returns one listing per input listing, in input order: a
\* listing whose id is the id of a ScoreResult gets aiScore, aiReason and
\* aiHighlights from a result of that id and keeps every other field; any other
\* listing is returned unchanged, its score fields absent.
MergeKeepsListings ==
    Scored =>
        /\ Len(enrichedResults) = Len(processed)
        /\ \A i \in 1..Len(processed) :
              LET item == processed[i]
                  out == enrichedResults[i]
              IN  IF Matches(item) # {}
                  THEN /\ \E k \in Matches(item) :
                             /\ out.aiScore = scoreResults[k].aiScore
                             /\ out.aiReason = scoreResults[k].aiReason
                             /\ out.aiHighlights = scoreResults[k].aiHighlights
                       /\ [out EXCEPT !.aiScore = None, !.aiReason = None,
                                      !.aiHighlights = None] = item
                  ELSE /\ out = item
                       /\ out.aiScore = None
                       /\ out.aiReason = None
                       /\ out.aiHighlights = None

\* an answer of two results merged into two listings, one matched, one not
MergePartialCoverage ==
    /\ Scored
    /\ Len(scoreResults) = 2
    /\ Len(processed) = 2
    /\ Matches(processed[1]) = {}
    /\ Matches(processed[2]) # {}
    /\ enrichedResults[2].aiScore = Some(90)

(***************************************************************************)
(* Spec: whole requests over a small mixed dataset.                        *)
(***************************************************************************)
CoreRaws ==
    {Raw(Some(NumId(1)), None, Some(T55), Some(Cena), None, None, None, None),
     Raw(None, Some(<<"a">>), None, None, Some(Whole(50)), None, Some(3000000), Some(2)),
     Raw(None, None, Some(T3kk), None, None, None, None, None)}

CoreBodies ==
    {Body(Brno, None, None, None, None, Some(TRUE)),
     Body(Brno, None, Some(70000), Some(3), Some(<<<<" ", "s", "k", "l", "e", "p">>>>), None),
     Body(<<"B">>, None, None, None, None, Some(TRUE))}

Init ==
    /\ InitHandler
    /\ body \in CoreBodies
    /\ source \in SeqsUpTo(CoreRaws, MaxListings)
    /\ remoteScores \in PlainScores
    /\ oracleScore \in {OracleAnswers(LowOutput, HighOutput)}

Spec == Init /\ [][Next]_vars

StageChain(ai) ==
    <<"Received", "Deduplicated", "Normalized", "Filtered",
      IF ai THEN "Scored" ELSE "Unscored", "Persisted", "Responded">>

\* the stages passed, without the abort that may end them
StagesPassed ==
    IF stages[Len(stages)] = "Failed" THEN SubSeq(stages, 1, Len(stages) - 1) ELSE stages

Succeeded == IsSome(response) /\ Val(response).status = 200

\* C9: the stages a request has passed are an initial part of Received,
\* Deduplicated, Normalized, Filtered, Scored or Unscored, Persisted, Responded
\* (so each at most once, none revisited); the scoring oracle is invoked once if
\* AI scoring is requested and never otherwise; a success response is sent only
\* after the results were persisted.
StagesInOrder ==
    /\ Len(StagesPassed) <= 7
    /\ StagesPassed = SubSeq(StageChain(aiScoringRequested), 1, Len(StagesPassed))
    /\ oracleCalls \in {0, 1}
    /\ oracleCalls = 1 => (aiScoringRequested /\ Len(StagesPassed) >= 4)
    /\ Len(StagesPassed) >= 5 => (oracleCalls = 1 <=> aiScoringRequested)
    /\ Succeeded =>
          /\ stages = StageChain(aiScoringRequested)
          /\ results = ResultRows(NewSearchId, Val(Val(response).results))
          /\ NewSearchId \in searches

\* a scored request that succeeded with results in the store
ScoredSuccess ==
    /\ Succeeded
    /\ Scored
    /\ Len(results) = 2

\* C10: a request that fails leaves no search record without its results in
\* the store: once the request is over, its search record is in the store
\* only if its results were persisted.
NoPartialPersistence ==
    (pc = "done" /\ NewSearchId \in searches) =>
        \E k \in 1..Len(stages) : stages[k] = "Persisted"


(***************************************************************************)
(* The response of a request                                               *)
(***************************************************************************)
Failed == IsSome(response) /\ Val(response).status = 500

\* the response is a success with the search id and all of the filtered
\* listings, which are the rows in the store, or a failure with a message only
ResponseShape ==
    /\ IsSome(response) <=> pc = "done"
    /\ IsSome(response) => (Succeeded \/ Failed)
    /\ Succeeded =>
          /\ Val(response).searchId = Some(NewSearchId)
          /\ Val(response).error = None
          /\ Val(response).results = Some(enrichedResults)
          /\ processed = filterListings(transformed, Val(normalized))
          /\ Len(enrichedResults) = Len(processed)
          /\ \A i \in 1..Len(processed) : enrichedResults[i].id = processed[i].id
          /\ results = ResultRows(NewSearchId, enrichedResults)
    /\ Failed =>
          /\ IsSome(Val(response).error)
          /\ Val(response).searchId = None
          /\ Val(response).results = None

\* C11: every POST request gets exactly one response: a response is there
\* exactly when the request is over and is never replaced; it is a success
\* carrying the search id and every listing that passed the filter, the same
\* listings that were persisted, or a failure carrying an error message and
\* neither a search id nor any list of results.
OneResponse ==
    /\ []ResponseShape
    /\ [][IsSome(response) => response' = response]_vars

\* a request that fails after it had collected listings to send
FailedWithListings ==
    /\ Failed
    /\ Len(enrichedResults) = 2
    /\ NewSearchId \in searches


(***************************************************************************)
(* The fallback of requestAiScoring                                        *)
(***************************************************************************)
\* /api/score could not be addressed or its call failed
RemoteUnavailable ==
    \E k \in 1..Len(calls) : calls[k] \in {"noBaseUrl", "scoreRemoteFailed"}

RemoteSucceeded == \E k \in 1..Len(calls) : calls[k] = "scoreRemote"

\* the request failed in the scoring stage
FailedInScoring ==
    /\ Failed
    /\ StagesPassed = SubSeq(StageChain(TRUE), 1, 4)
    /\ oracleCalls = 1

\* C12: when AI scoring is requested and /api/score has no base URL or its call
\* fails, the local scoring routine is invoked next, with the filtered
\* listings, and its results are merged; the request fails in the scoring
\* stage only when the local routine was invoked (on a batch that is not
\* empty) and failed, never by the remote failure alone; the local routine is
\* not invoked when the remote call succeeds.
FallbackToLocal ==
    /\ \A k \in 1..Len(calls) :
          /\ calls[k] \in {"noBaseUrl", "scoreRemoteFailed"} =>
                /\ aiScoringRequested
                /\ k < Len(calls)
                /\ calls[k + 1] = "scoreLocal"
          /\ calls[k] = "scoreLocal" =>
                /\ k > 1
                /\ calls[k - 1] \in {"noBaseUrl", "scoreRemoteFailed"}
    /\ RemoteUnavailable => localCalls = 1
    /\ (RemoteUnavailable /\ ~FailedInScoring) =>
          /\ Scored
          /\ scoreResults = scoreRealEstateItems(processed).results
          /\ enrichedResults = mergeScores(processed, scoreResults)
    /\ FailedInScoring => (RemoteUnavailable /\ processed # <<>>)
    /\ RemoteSucceeded =>
          /\ localCalls = 0
          /\ ~RemoteUnavailable
          /\ \A k \in 1..Len(calls) : calls[k] # "scoreLocal"
          /\ scoreResults = remoteScores

\* the call of /api/score failed and the request went on with local scores
RemoteFailedLocalScored ==
    /\ Succeeded
    /\ \E k \in 1..Len(calls) : calls[k] = "scoreRemoteFailed"
    /\ Len(enrichedResults) = 2
    /\ enrichedResults[1].aiScore = Some(40)


(***************************************************************************)
(* SpecValidate: requests with valid and invalid payloads.                 *)
(***************************************************************************)
Blank2 == <<" ", " ">>

ValidateCities ==
    {<<>>, <<"B">>, Blank2, <<" ", "B">>, Brno, <<" ">> \o Brno \o <<" ">>}

ValidateKeywords ==
    {None, Some(<<>>), Some(<<<<" ">>>>), Some(<<<<" ", "a", " ">>, <<"b">>>>)}

ValidateBodies ==
    {Body(c, pm, pm2, None, kw, ai) :
        c \in ValidateCities, pm \in {None, Some(0), Some(5000000)},
        pm2 \in {None, Some(-1)}, kw \in ValidateKeywords,
        ai \in {None, Some(FALSE), Some(TRUE)}}

InitValidate ==
    /\ InitHandler
    /\ body \in ValidateBodies
    /\ source \in {<<>>, <<Raw(Some(NumId(1)), None, Some(T55), Some(Cena), None, None,
                              None, None)>>}
    /\ remoteScores \in {<<>>}
    /\ oracleScore \in {OracleAnswers(LowOutput, HighOutput)}

SpecValidate == InitValidate /\ [][Next]_vars

\* C14: a request whose payload fails validation makes no external call and
\* has no side effect: no collaborator is invoked (the store, the scraping
\* source, either scoring path), no search record and no result row is
\* written, and the only thing that happens is the failure response.
InvalidHasNoEffect ==
    ~searchSchemaOk(body) =>
        /\ calls = <<>>
        /\ searches = {}
        /\ results = <<>>
        /\ oracleCalls = 0
        /\ localCalls = 0
        /\ parsed = None
        /\ normalized = None
        /\ pc \in {"parse", "done"}
        /\ pc = "done" => (Failed /\ stages = <<"Received", "Failed">>)

\* a request with a valid city and a price limit of 0 was rejected
RejectedForPrice ==
    /\ body.city = Brno
    /\ body.priceMax = Some(0)
    /\ body.keywords = None
    /\ Failed

\* C17: the normalized search parameters handed to the scraping source have
\* a city that is trimmed and not empty and keywords that are each trimmed and
\* not empty.
TriggeredWithCity ==
    (\E k \in 1..Len(calls) : calls[k] = "scrapeTrigger") =>
        /\ Val(normalized).city = Trim(Val(normalized).city)
        /\ Val(normalized).city # <<>>
        /\ \A k \in 1..Len(Val(normalized).keywords) :
              /\ Val(normalized).keywords[k] = Trim(Val(normalized).keywords[k])
              /\ Val(normalized).keywords[k] # <<>>


(***************************************************************************)
(* SpecPoll: one call of pollRunForDataset.  Every status check returns    *)
(* and every timer fires, so a step that can be taken is taken.            *)
(***************************************************************************)
InitPoll ==
    /\ InitRequest
    /\ body = Body(Brno, None, None, None, None, None)
    /\ source = <<>>
    /\ remoteScores = <<>>
    /\ oracleScore = OracleAnswers(LowOutput, HighOutput)
    /\ pollPc = "test"
    /\ elapsed = 0
    /\ lastCheckAt = None
    /\ lastStatus = None
    /\ pollResult = None

SpecPoll == InitPoll /\ [][NextPoll]_vars /\ WF_vars(NextPoll)

PollOver == pollPc \in {"returned", "threw"}

LastAnswer == Val(lastStatus)

\* no status check is started once the maximum wait has elapsed, a failed
\* check or a run that ended badly is a hard error, and the timeout failure
\* is raised at the maximum wait or later after a status that is not terminal
PollOutcomes ==
    /\ IsSome(pollResult) <=> PollOver
    /\ IsSome(lastCheckAt) => Val(lastCheckAt) < MAX_POLL_DURATION_MS
    /\ pollPc = "check" => lastCheckAt = Some(elapsed)
    /\ pollPc = "returned" =>
          /\ LastAnswer.status = Some("SUCCEEDED")
          /\ pollResult = Returned(Val(LastAnswer.datasetId))
    /\ (IsSome(lastStatus) /\ ~LastAnswer.ok) =>
          pollResult = Threw("Failed to poll Apify run")
    /\ (IsSome(lastStatus) /\ LastAnswer.ok
            /\ Val(LastAnswer.status) \in {"FAILED", "ABORTED", "TIMED-OUT"}) =>
          pollResult = Threw("Apify run ended with status")
    /\ pollResult = Threw("Apify run polling timed out") <=>
          /\ PollOver
          /\ elapsed >= MAX_POLL_DURATION_MS
          /\ LastAnswer.ok
          /\ Val(LastAnswer.status) \in {"READY", "RUNNING"}

\* a run that succeeded: its dataset id is returned if it has one, and the
\* lack of one is a hard error
SucceededOutcome ==
    (IsSome(lastStatus) /\ LastAnswer.ok /\ LastAnswer.status = Some("SUCCEEDED")) =>
        IF IsSome(LastAnswer.datasetId)
        THEN pollResult = Returned(Val(LastAnswer.datasetId))
        ELSE pollResult = Threw("Apify run succeeded but dataset id missing")

\* C13 as stated: the poll loop returns the dataset id whenever the run
\* status is SUCCEEDED.
ReturnsWhenSucceeded ==
    (IsSome(lastStatus) /\ LastAnswer.ok /\ LastAnswer.status = Some("SUCCEEDED")) =>
        pollPc = "returned"

\* C13: the poll loop always ends: it returns the dataset id when the run
\* status is SUCCEEDED and the run has a dataset id, raises a hard error when
\* the status is SUCCEEDED without a dataset id, FAILED, ABORTED or TIMED-OUT
\* or when a status check fails, and raises the timeout failure once the
\* elapsed time has reached the maximum wait (120000 ms) while the status
\* stayed non-terminal; no status check starts after the maximum wait.
PollEnds ==
    /\ []PollOutcomes
    /\ []SucceededOutcome
    /\ <>PollOver

\* the loop ran into the maximum wait: sixty checks of a running run
PollTimedOut ==
    /\ pollResult = Threw("Apify run polling timed out")
    /\ elapsed = MAX_POLL_DURATION_MS
    /\ lastCheckAt = Some(MAX_POLL_DURATION_MS - POLL_INTERVAL_MS)


(***************************************************************************)
(* SpecScore: requests scored in process, over the outputs the scoring     *)
(* oracle can give for each item.                                          *)
(***************************************************************************)
Fine == <<"f", "i", "n", "e">>

ScoreOutputs ==
    {Completion("throws", None, None, None),
     Completion("noContent", None, None, None),
     Completion("malformed", None, None, None),
     Completion("jsonNull", None, None, None),
     Completion("object", None, Some(Fine), Some(<<>>)),
     Completion("object", Some(-5), None, None),
     Completion("object", Some(150), Some(Fine), None),
     Completion("object", Some(77), Some(Fine), Some(<<Fine>>))}

\* datasets of up to MaxListings listings with the ids 1, 2, ...
ScoreSources ==
    {[i \in 1..n |-> Raw(Some(NumId(i)), None, Some(<<"a">>), None, None, None, None, None)] :
        n \in 0..MaxListings}

InitScore ==
    /\ InitHandler
    /\ body \in {Body(Brno, None, None, None, None, Some(TRUE)),
                 Body(Brno, None, None, None, None, None),
                 Body(<<"B">>, None, None, None, None, Some(TRUE))}
    /\ source \in ScoreSources
    /\ remoteScores = <<ScoreResult(<<"1">>, LowScore)>>
    /\ oracleScore \in [1..MaxListings -> ScoreOutputs]

SpecScore == InitScore /\ [][Next]_vars

\* the local scoring routine was called and returned
LocalScored == Scored /\ localCalls = 1

\* C15: when the local scoring routine returns, it returns one result per
\* input item in input order; the result of an item whose oracle output is
\* malformed is aiScore 0, the parse-failure note and no highlights; the result
\* of every item is made from that item and its own oracle output alone; and
\* the routine fails only without an API key or when an oracle call fails,
\* never for a malformed output.
MalformedScoredZero ==
    /\ LocalScored =>
          /\ Len(scoreResults) = Len(processed)
          /\ \A i \in 1..Len(processed) :
                /\ scoreResults[i].id = processed[i].id
                /\ scoreResults[i] = ItemResult(processed[i], oracleScore[i])
                /\ oracleScore[i].kind = "malformed" =>
                      /\ scoreResults[i].aiScore = Some(0)
                      /\ scoreResults[i].aiReason = Some(ParseFailureNote)
                      /\ scoreResults[i].aiHighlights = Some(<<>>)
    /\ (Failed /\ Val(response).error = Some("the scoring oracle call failed")) =>
          \E i \in 1..Len(processed) : oracleScore[i].kind = "throws"
    /\ (FailedInScoring /\ \A i \in 1..Len(processed) : oracleScore[i].kind # "throws") =>
          Val(response).error = Some("OPENAI_API_KEY is not configured")

\* a batch of a malformed and a well-formed output was scored
MalformedAndScored ==
    /\ LocalScored
    /\ Len(processed) = 2
    /\ oracleScore[1].kind = "malformed"
    /\ scoreResults[2].aiScore = Some(77)
    /\ pc = "done"

\* C16: with the API key configured, an item whose oracle call fails is
\* absent from the scoring result and the local scoring routine still returns
\* the results of all the other items of the batch: the request does not fail
\* for it.
UnscorableItemAbsent ==
    (localCalls = 1 /\ \E i \in 1..Len(processed) : oracleScore[i].kind = "throws") =>
        /\ FailedInScoring => Val(response).error = Some("OPENAI_API_KEY is not configured")
        /\ Scored =>
              scoreResults =
                  SelectSeq([i \in 1..Len(processed) |->
                                 ItemResult(processed[i], oracleScore[i])],
                            LAMBDA r : \E i \in 1..Len(processed) :
                                 /\ oracleScore[i].kind # "throws"
                                 /\ r.id = processed[i].id)

\* C18: every aiScore a scoring result carries, and every aiScore attached to
\* a listing, is a number from 0 to 100.
AiScoreInRange ==
    Scored =>
        /\ \A i \in 1..Len(scoreResults) : InRange(scoreResults[i].aiScore)
        /\ \A i \in 1..Len(enrichedResults) :
              HasScore(scoreResults, enrichedResults[i].id) =>
                  InRange(enrichedResults[i].aiScore)

=============================================================================
